---- MODULE Spec2Model ----
(***************************************************************************)
(* Model of vpt_core/io/image.py: the tile reader (read_tile), the image   *)
(* set assembler (get_segmentation_images) and the prepared image builder  *)
(* (get_prepared_images).                                                  *)
(*                                                                         *)
(* Every function is modelled at the granularity of its statements, with   *)
(* a program counter per function.  The raster store and the preprocessing *)
(* filters are outside the file; the store is an oracle (script) giving    *)
(* the outcome of each read attempt, a filter is one of a few pipelines    *)
(* that change image shapes.                                               *)
(***************************************************************************)
EXTENDS Integers, Sequences, FiniteSets, TLC

VARIABLES
    \* ---- read_tile ----
    window,          \* parameter window: <<col_off, row_off, width, height>>
    path,            \* parameter path
    num_tries,       \* parameter num_tries
    try_number,      \* loop variable of "for try_number in range(1, num_tries + 1)"
    rt_pc,           \* position in read_tile
    pending,         \* exception in flight while the with-blocks unwind
    env_open,        \* rasterio environments entered and not yet exited
    file_open,       \* files opened and not yet closed
    image,           \* local image (the array read), NoImage before a read
    log,             \* messages printed so far
    script,          \* oracle: outcome of attempt k at the raster store
    attempts,        \* history: outcomes of the attempts made so far
    rt_result,       \* what read_tile returned or raised
    \* ---- get_segmentation_images ----
    images_info,     \* parameter images_info: sequence of ImageInfo
    window_info,     \* parameter window_info
    seg_idx,         \* position of the for loop in images_info
    seg_images,      \* local images (the ImageSet under construction)
    seg_pc,          \* position in get_segmentation_images
    seg_result,      \* what get_segmentation_images returned or raised
    \* ---- get_prepared_images ----
    task,            \* parameter task (SegTask)
    images,          \* parameter images (ImageSet)
    cur_images,      \* local cur_images
    scale,           \* local scale, None before the first channel
    inp_idx,         \* position of the for loop in task.task_input_data
    task_z,          \* local task_z
    task_images,     \* local task_images
    filtered_images, \* local filtered_images
    filter_runs,     \* history: channels whose filter was called, in order
    prep_pc,         \* position in get_prepared_images
    prep_result,     \* what get_prepared_images returned or raised
    earlier          \* history: inputs and result of an earlier call on the same images

rt_vars == <<window, path, num_tries, try_number, rt_pc, pending, env_open,
             file_open, image, log, script, attempts, rt_result>>
seg_vars == <<images_info, window_info, seg_idx, seg_images, seg_pc, seg_result>>
prep_vars == <<task, images, cur_images, scale, inp_idx, task_z, task_images,
               filtered_images, filter_runs, prep_pc, prep_result, earlier>>
vars == <<rt_vars, seg_vars, prep_vars>>

(***************************************************************************)
(* Bounds and input domains                                                *)
(***************************************************************************)
MaxTries == 4
MaxDescr == 3
MaxInputs == 2

DefaultTries == 5

Paths == {"dapi.tif", "polyt.tif"}
Windows == {<<0, 0, 4, 4>>, <<2, 0, 4, 2>>, <<0, 1, 1, 4>>}
Channels == {"DAPI", "PolyT"}
TaskChannels == Channels \cup {"Cellbound1"}
ZLayers == {0, 1}
TaskIds == {"task7"}

\* Outcome of one attempt at the raster store: the read succeeds, or one of
\* the calls inside the try block raises.  WindowError stands for any
\* exception that is not an OSError.
Outcomes == {"ok", "env_OSError", "open_OSError", "read_OSError", "read_WindowError"}
IsOSError(o) == o \in {"env_OSError", "open_OSError", "read_OSError"}

Min2(a, b) == IF a <= b THEN a ELSE b

NoImage == [kind |-> "unset"]
NoResult == [kind |-> "none"]

(***************************************************************************)
(* read_tile                                                               *)
(***************************************************************************)
RECURSIVE SelectNot1(_)
SelectNot1(s) ==
    IF s = <<>> THEN <<>>
    ELSE IF Head(s) = 1 THEN SelectNot1(Tail(s))
    ELSE <<Head(s)>> \o SelectNot1(Tail(s))

\* np.squeeze: drops the axes of length one
Squeeze(shape) == SelectNot1(shape)

\* file.read(1, window=Window(col_off, row_off, width, height)):
\* one band, height rows by width columns
ReadBand(p, w) == [kind |-> "array", path |-> p, window |-> w, shape |-> <<w[4], w[3]>>]

SqueezeImage(im) == [im EXCEPT !.shape = Squeeze(im.shape)]

\* "for try_number in range(1, num_tries + 1)": the loop body runs again
LoopContinuesOffByOne(t, n) == t < n
LoopContinues(t, n) == t <= n

\* "if try_number + 1 <= num_tries": a retry follows this failure
ShouldLogAlways(t, n) == t <= n
ShouldLog(t, n) == t + 1 <= n

\* f"Failed to read {path} at {window}. Retrying {try_number}/{num_retries}."
RetryMessage(p, w, t, n) ==
    [path |-> p, window |-> w, retrying |-> t, num_retries |-> n - 1]

\* Leaving "with rasterio_open(path) as file": the file is closed whether the
\* body ended normally or raised.
FileExitLeakOnError(n, exc) == IF exc = "none" THEN n - 1 ELSE n
FileExit(n, exc) == n - 1

\* Leaving "with get_rasterio_environment(path)"
EnvExit(n, exc) == n - 1

\* Where control goes once both with-blocks are left: the statement after the
\* try (break), the except clause, or out of read_tile.
AfterTry(exc) ==
    IF exc = "none" THEN "break"
    ELSE IF exc = "OSError" THEN "except"
    ELSE "raise"

ExcOf(o) == IF IsOSError(o) THEN "OSError" ELSE "WindowError"

\* for ... : / else: raise IOError(...)
rt_Loop ==
    /\ rt_pc = "loop"
    /\ IF LoopContinues(try_number, num_tries)
       THEN /\ rt_pc' = "enter_env"
            /\ rt_result' = rt_result
       ELSE /\ rt_pc' = "done"
            /\ rt_result' = [kind |-> "IOError", path |-> path, window |-> window]
    /\ UNCHANGED <<window, path, num_tries, try_number, pending, env_open,
                   file_open, image, log, script, attempts>>
    /\ UNCHANGED <<seg_vars, prep_vars>>

\* with get_rasterio_environment(path):
rt_EnterEnv ==
    /\ rt_pc = "enter_env"
    /\ attempts' = Append(attempts, script[try_number])
    /\ IF script[try_number] = "env_OSError"
       THEN /\ pending' = "OSError"
            /\ rt_pc' = AfterTry("OSError")
            /\ env_open' = env_open
       ELSE /\ pending' = "none"
            /\ rt_pc' = "open_file"
            /\ env_open' = env_open + 1
    /\ UNCHANGED <<window, path, num_tries, try_number, file_open, image, log,
                   script, rt_result>>
    /\ UNCHANGED <<seg_vars, prep_vars>>

\* with rasterio_open(path) as file:
rt_OpenFile ==
    /\ rt_pc = "open_file"
    /\ IF script[try_number] = "open_OSError"
       THEN /\ pending' = "OSError"
            /\ rt_pc' = "exit_env"
            /\ file_open' = file_open
       ELSE /\ pending' = "none"
            /\ rt_pc' = "read"
            /\ file_open' = file_open + 1
    /\ UNCHANGED <<window, path, num_tries, try_number, env_open, image, log,
                   script, attempts, rt_result>>
    /\ UNCHANGED <<seg_vars, prep_vars>>

\* image = file.read(1, window=...)
rt_Read ==
    /\ rt_pc = "read"
    /\ IF script[try_number] = "ok"
       THEN /\ image' = ReadBand(path, window)
            /\ pending' = "none"
       ELSE /\ image' = image
            /\ pending' = ExcOf(script[try_number])
    /\ rt_pc' = "exit_file"
    /\ UNCHANGED <<window, path, num_tries, try_number, env_open, file_open, log,
                   script, attempts, rt_result>>
    /\ UNCHANGED <<seg_vars, prep_vars>>

\* __exit__ of "with rasterio_open(path) as file"
rt_ExitFile ==
    /\ rt_pc = "exit_file"
    /\ file_open' = FileExit(file_open, pending)
    /\ rt_pc' = "exit_env"
    /\ UNCHANGED <<window, path, num_tries, try_number, pending, env_open, image,
                   log, script, attempts, rt_result>>
    /\ UNCHANGED <<seg_vars, prep_vars>>

\* __exit__ of "with get_rasterio_environment(path)"
rt_ExitEnv ==
    /\ rt_pc = "exit_env"
    /\ env_open' = EnvExit(env_open, pending)
    /\ rt_pc' = AfterTry(pending)
    /\ UNCHANGED <<window, path, num_tries, try_number, pending, file_open, image,
                   log, script, attempts, rt_result>>
    /\ UNCHANGED <<seg_vars, prep_vars>>

\* except OSError: if ...: print(...); continue
rt_Except ==
    /\ rt_pc = "except"
    /\ log' = IF ShouldLog(try_number, num_tries)
              THEN Append(log, RetryMessage(path, window, try_number, num_tries))
              ELSE log
    /\ try_number' = try_number + 1
    /\ pending' = "none"
    /\ rt_pc' = "loop"
    /\ UNCHANGED <<window, path, num_tries, env_open, file_open, image, script,
                   attempts, rt_result>>
    /\ UNCHANGED <<seg_vars, prep_vars>>

\* break; return np.squeeze(image)
rt_Return ==
    /\ rt_pc = "break"
    /\ rt_result' = [kind |-> "return", value |-> SqueezeImage(image)]
    /\ rt_pc' = "done"
    /\ UNCHANGED <<window, path, num_tries, try_number, pending, env_open,
                   file_open, image, log, script, attempts>>
    /\ UNCHANGED <<seg_vars, prep_vars>>

\* an exception that is not an OSError leaves read_tile
rt_Raise ==
    /\ rt_pc = "raise"
    /\ rt_result' = [kind |-> pending]
    /\ rt_pc' = "done"
    /\ UNCHANGED <<window, path, num_tries, try_number, pending, env_open,
                   file_open, image, log, script, attempts>>
    /\ UNCHANGED <<seg_vars, prep_vars>>

\* Calling read_tile(w, p, n) against a store that behaves as s
rt_Call(w, p, n, s) ==
    /\ window' = w
    /\ path' = p
    /\ num_tries' = n
    /\ script' = s
    /\ try_number' = 1
    /\ rt_pc' = "loop"
    /\ pending' = "none"
    /\ env_open' = 0
    /\ file_open' = 0
    /\ image' = NoImage
    /\ log' = <<>>
    /\ attempts' = <<>>
    /\ rt_result' = NoResult

\* State of read_tile on entry
rt_Entry(w, p, n, s) ==
    /\ window = w
    /\ path = p
    /\ num_tries = n
    /\ script = s
    /\ try_number = 1
    /\ rt_pc = "loop"
    /\ pending = "none"
    /\ env_open = 0
    /\ file_open = 0
    /\ image = NoImage
    /\ log = <<>>
    /\ attempts = <<>>
    /\ rt_result = NoResult

rt_Idle ==
    /\ window = <<0, 0, 0, 0>>
    /\ path = ""
    /\ num_tries = 0
    /\ script = <<>>
    /\ try_number = 0
    /\ rt_pc = "idle"
    /\ pending = "none"
    /\ env_open = 0
    /\ file_open = 0
    /\ image = NoImage
    /\ log = <<>>
    /\ attempts = <<>>
    /\ rt_result = NoResult

seg_Idle ==
    /\ images_info = <<>>
    /\ window_info = <<0, 0, 0, 0>>
    /\ seg_idx = 0
    /\ seg_images = <<>>
    /\ seg_pc = "idle"
    /\ seg_result = NoResult

prep_Idle ==
    /\ task = [task_id |-> "", z_layers |-> {}, task_input_data |-> <<>>]
    /\ images = <<>>
    /\ cur_images = <<>>
    /\ scale = <<>>
    /\ inp_idx = 0
    /\ task_z = <<>>
    /\ task_images = <<>>
    /\ filtered_images = <<>>
    /\ filter_runs = <<>>
    /\ prep_pc = "idle"
    /\ prep_result = NoResult
    /\ earlier = NoResult

\* read_tile(window, path, num_tries) called on its own
InitRead ==
    /\ \E w \in Windows, p \in Paths, n \in 1 .. MaxTries :
         \E s \in [1 .. n -> Outcomes] : rt_Entry(w, p, n, s)
    /\ seg_Idle
    /\ prep_Idle

NextRead ==
    \/ rt_Loop
    \/ rt_EnterEnv
    \/ rt_OpenFile
    \/ rt_Read
    \/ rt_ExitFile
    \/ rt_ExitEnv
    \/ rt_Except
    \/ rt_Return
    \/ rt_Raise

SpecRead == InitRead /\ [][NextRead]_vars

(***************************************************************************)
(* ImageSet: a dict from channel to a dict from z layer to image           *)
(***************************************************************************)
EmptyDict == <<>>

\* d.get(k), None being falsy like the empty dict
DictHas(d, k) == k \in DOMAIN d

\* d[k] = v
DictSet(d, k, v) == [x \in DOMAIN d \cup {k} |-> IF x = k THEN v ELSE d[x]]

\* The (channel, z layer) keys of an ImageSet
Keys(imgs) == UNION {{<<c, z>> : z \in DOMAIN imgs[c]} : c \in DOMAIN imgs}

(***************************************************************************)
(* get_segmentation_images                                                 *)
(***************************************************************************)
ImageInfo == [channel : Channels, z_layer : ZLayers, full_path : Paths]

\* "if not images.get(image_info.channel)": the channel is missing, or its
\* dict is empty
NeedsNewDictAlways(imgs, ch) == TRUE
NeedsNewDict(imgs, ch) == ~DictHas(imgs, ch) \/ imgs[ch] = EmptyDict

\* images[image_info.channel][image_info.z_layer] = tile
StoreTile(imgs, info, tile) ==
    DictSet(imgs, info.channel, DictSet(imgs[info.channel], info.z_layer, tile))

\* Behaviours of the store during one read_tile call with the default number
\* of tries: n I/O failures and then successes, or a first attempt that
\* raises another exception.
ReadScripts ==
    {[k \in 1 .. DefaultTries |-> IF k <= n THEN "read_OSError" ELSE "ok"] :
        n \in 0 .. DefaultTries} \cup
    {[k \in 1 .. DefaultTries |-> IF k = 1 THEN "read_WindowError" ELSE "ok"]}

\* for image_info in images_info: if not images.get(...): images[...] = {}
\* and the call of read_tile(window_info, str(image_info.full_path));
\* after the last descriptor, return images
seg_For ==
    /\ seg_pc = "for"
    /\ IF seg_idx <= Len(images_info)
       THEN /\ seg_images' =
                  IF NeedsNewDict(seg_images, images_info[seg_idx].channel)
                  THEN DictSet(seg_images, images_info[seg_idx].channel, EmptyDict)
                  ELSE seg_images
            /\ \E s \in ReadScripts :
                  rt_Call(window_info, images_info[seg_idx].full_path, DefaultTries, s)
            /\ seg_pc' = "read_tile"
            /\ seg_result' = seg_result
       ELSE /\ seg_result' = [kind |-> "return", value |-> seg_images]
            /\ seg_pc' = "done"
            /\ seg_images' = seg_images
            /\ UNCHANGED rt_vars
    /\ UNCHANGED <<images_info, window_info, seg_idx, prep_vars>>

\* read_tile is over: its tile is stored at [channel][z_layer], or its
\* exception leaves get_segmentation_images
seg_Store ==
    /\ seg_pc = "read_tile"
    /\ rt_pc = "done"
    /\ IF rt_result.kind = "return"
       THEN /\ seg_images' = StoreTile(seg_images, images_info[seg_idx], rt_result.value)
            /\ seg_idx' = seg_idx + 1
            /\ seg_pc' = "for"
            /\ seg_result' = seg_result
       ELSE /\ seg_result' = rt_result
            /\ seg_pc' = "done"
            /\ UNCHANGED <<seg_images, seg_idx>>
    /\ rt_pc' = "idle"
    /\ UNCHANGED <<window, path, num_tries, try_number, pending, env_open,
                   file_open, image, log, script, attempts, rt_result>>
    /\ UNCHANGED <<images_info, window_info, prep_vars>>

RECURSIVE SeqsUpTo(_, _)
SeqsUpTo(S, n) ==
    IF n = 0 THEN {<<>>}
    ELSE LET shorter == SeqsUpTo(S, n - 1)
         IN  shorter \cup {Append(q, x) : q \in shorter, x \in S}

\* get_segmentation_images(images_info, window_info) on entry
InitAssemble ==
    /\ rt_Idle
    /\ prep_Idle
    /\ images_info \in SeqsUpTo(ImageInfo, MaxDescr)
    /\ window_info \in Windows
    /\ seg_idx = 1
    /\ seg_images = EmptyDict
    /\ seg_pc = "for"
    /\ seg_result = NoResult

NextAssemble ==
    \/ seg_For
    \/ seg_Store
    \/ rt_Loop
    \/ rt_EnterEnv
    \/ rt_OpenFile
    \/ rt_Read
    \/ rt_ExitFile
    \/ rt_ExitEnv
    \/ rt_Except
    \/ rt_Return
    \/ rt_Raise

SpecAssemble == InitAssemble /\ [][NextAssemble]_vars

(***************************************************************************)
(* Preprocessing pipelines (vpt_core.image.filter_factory)                 *)
(***************************************************************************)
Pipelines == {"identity", "downsample2", "uneven"}
Shapes == {<<4, 4>>, <<2, 4>>}

Resized(im, p, shape) == [im EXCEPT !.kind = p, !.shape = shape]

\* image_filter(task_images): a list of the same length.  identity returns
\* its input; downsample2 halves both axes of every image; uneven halves the
\* rows of every image and the columns of the first image only.
ApplyFilter(p, imgs) ==
    IF p = "identity" THEN imgs
    ELSE [i \in 1 .. Len(imgs) |->
            LET h == imgs[i].shape[1]
                w == imgs[i].shape[2]
            IN  IF p = "downsample2" \/ i = 1
                THEN Resized(imgs[i], p, <<h \div 2, w \div 2>>)
                ELSE Resized(imgs[i], p, <<h \div 2, w>>)]

(***************************************************************************)
(* get_prepared_images                                                     *)
(***************************************************************************)
None == <<>>

RECURSIVE GCD(_, _)
GCD(a, b) == IF b = 0 THEN a ELSE GCD(b, a % b)

\* a / b on two positive ints: the quotient, kept as a fraction in lowest
\* terms (two quotients of small ints are the same float exactly when they are
\* the same fraction)
TrueDiv(a, b) == <<a \div GCD(a, b), b \div GCD(a, b)>>

FracLess(x, y) == x[1] * y[2] < y[1] * x[2]

\* t1 < t2 on tuples of two floats
TupleLess(t1, t2) ==
    \/ FracLess(t1[1], t2[1])
    \/ t1[1] = t2[1] /\ FracLess(t1[2], t2[2])

Range(q) == {q[i] : i \in 1 .. Len(q)}

\* min(cur_scale), max(cur_scale) on a non-empty list
MinOf(q) == CHOOSE x \in Range(q) : \A y \in Range(q) : ~TupleLess(y, x)
MaxOf(q) == CHOOSE x \in Range(q) : \A y \in Range(q) : ~TupleLess(x, y)

RECURSIVE Sorted(_)
Sorted(S) ==
    IF S = {} THEN <<>>
    ELSE LET m == CHOOSE x \in S : \A y \in S : x <= y
         IN  <<m>> \o Sorted(S \ {m})

\* sorted([z for z in images[channel] if z in task.z_layers])
TaskZ(imgs, ch, zl) == Sorted({z \in DOMAIN imgs[ch] : z \in zl})

\* [images[channel][z] for z in task_z]
TaskImages(imgs, ch, tz) == [i \in 1 .. Len(tz) |-> imgs[ch][tz[i]]]

\* "if len(task_z) == 0"
NoTaskZNever(tz) == FALSE
NoTaskZ(tz) == Len(tz) = 0

\* [(im.shape[0] / cur_im.shape[0], im.shape[1] / cur_im.shape[1])
\*  for im, cur_im in zip(task_images, filtered_images)]
CurScale(ims, filtered) ==
    [i \in 1 .. Min2(Len(ims), Len(filtered)) |->
        <<TrueDiv(ims[i].shape[1], filtered[i].shape[1]),
          TrueDiv(ims[i].shape[2], filtered[i].shape[2])>>]

\* "min(cur_scale) != max(cur_scale) or
\*  (scale is not None and scale != cur_scale[0])"
ScaleMismatchWithinChannelOnly(sc, cs) == MinOf(cs) # MaxOf(cs)
ScaleMismatch(sc, cs) ==
    \/ MinOf(cs) # MaxOf(cs)
    \/ sc # None /\ sc # cs[1]

\* {z: filtered_images[i] for i, z in enumerate(task_z)}
FilteredByIndex(tz, filtered) == [i \in 0 .. Len(tz) - 1 |-> filtered[i + 1]]
FilteredByZ(tz, filtered) ==
    [z \in Range(tz) |-> filtered[CHOOSE i \in 1 .. Len(tz) : tz[i] = z]]

\* "if scale is None"
ScaleIsNoneNever(sc) == FALSE
ScaleIsNone(sc) == sc = None

NoChannelImages(ch, id) ==
    [kind |-> "ValueError",
     message |-> "Invalid experiment: no {channel} input images found for the task {task_id}",
     channel |-> ch, task_id |-> id]
InvalidScale ==
    [kind |-> "ValueError",
     message |-> "Invalid preprocessing scale: input images for segmentation after postprocessing should have same sizes"]
NoInputImages(id) ==
    [kind |-> "ValueError",
     message |-> "Invalid experiment: no input images found for the task {task_id}",
     task_id |-> id]
MinOfEmpty ==
    [kind |-> "ValueError", message |-> "min() arg is an empty sequence"]

input_info == task.task_input_data[inp_idx]

\* for input_info in task.task_input_data: the filter is created, task_z and
\* task_images are selected, and an empty task_z raises
prep_For ==
    /\ prep_pc = "for"
    /\ IF inp_idx <= Len(task.task_input_data)
       THEN IF ~DictHas(images, input_info.image_channel)
            THEN /\ prep_result' = [kind |-> "KeyError", key |-> input_info.image_channel]
                 /\ prep_pc' = "done"
                 /\ UNCHANGED <<task_z, task_images>>
            ELSE /\ task_z' = TaskZ(images, input_info.image_channel, task.z_layers)
                 /\ task_images' = TaskImages(images, input_info.image_channel, task_z')
                 /\ IF NoTaskZ(task_z')
                    THEN /\ prep_result' =
                               NoChannelImages(input_info.image_channel, task.task_id)
                         /\ prep_pc' = "done"
                    ELSE /\ prep_result' = prep_result
                         /\ prep_pc' = "filter"
       ELSE /\ prep_pc' = "after_for"
            /\ UNCHANGED <<task_z, task_images, prep_result>>
    /\ UNCHANGED <<task, images, cur_images, scale, inp_idx, filtered_images,
                   filter_runs, earlier>>
    /\ UNCHANGED <<rt_vars, seg_vars>>

\* filtered_images = image_filter(task_images)
prep_Filter ==
    /\ prep_pc = "filter"
    /\ filtered_images' = ApplyFilter(input_info.image_preprocessing, task_images)
    /\ filter_runs' = Append(filter_runs, input_info.image_channel)
    /\ prep_pc' = "scale"
    /\ UNCHANGED <<task, images, cur_images, scale, inp_idx, task_z, task_images,
                   prep_result, earlier>>
    /\ UNCHANGED <<rt_vars, seg_vars>>

\* cur_scale is computed and checked; scale and cur_images[channel] are set
prep_Scale ==
    /\ prep_pc = "scale"
    /\ LET cur_scale == CurScale(task_images, filtered_images)
       IN  IF cur_scale = <<>>
           THEN /\ prep_result' = MinOfEmpty
                /\ prep_pc' = "done"
                /\ UNCHANGED <<scale, cur_images, inp_idx>>
           ELSE IF ScaleMismatch(scale, cur_scale)
           THEN /\ prep_result' = InvalidScale
                /\ prep_pc' = "done"
                /\ UNCHANGED <<scale, cur_images, inp_idx>>
           ELSE /\ scale' = cur_scale[1]
                /\ cur_images' = DictSet(cur_images, input_info.image_channel,
                                         FilteredByZ(task_z, filtered_images))
                /\ inp_idx' = inp_idx + 1
                /\ prep_pc' = "for"
                /\ prep_result' = prep_result
    /\ UNCHANGED <<task, images, task_z, task_images, filtered_images, filter_runs,
                   earlier>>
    /\ UNCHANGED <<rt_vars, seg_vars>>

\* if scale is None: raise ...; return cur_images, scale
prep_Return ==
    /\ prep_pc = "after_for"
    /\ prep_result' = IF ScaleIsNone(scale)
                      THEN NoInputImages(task.task_id)
                      ELSE [kind |-> "return", images |-> cur_images, scale |-> scale]
    /\ prep_pc' = "done"
    /\ UNCHANGED <<task, images, cur_images, scale, inp_idx, task_z, task_images,
                   filtered_images, filter_runs, earlier>>
    /\ UNCHANGED <<rt_vars, seg_vars>>

TaskInput == [image_channel : TaskChannels, image_preprocessing : Pipelines]

SegTasks ==
    [task_id : TaskIds, z_layers : SUBSET ZLayers,
     task_input_data : SeqsUpTo(TaskInput, MaxInputs)]

Img(c, z, shape) == [kind |-> "array", source |-> <<c, z>>, shape |-> shape]

\* Image sets: some of the channels, each with some z layers, the images of
\* one channel having one shape
ImageSets ==
    UNION {{[c \in D |-> [z \in zs[c] |-> Img(c, z, sh[c])]] :
               zs \in [D -> (SUBSET ZLayers) \ {{}}], sh \in [D -> Shapes]} :
           D \in SUBSET TaskChannels}

\* get_prepared_images(tk, imgs) on entry
prep_Entry(tk, imgs) ==
    /\ task = tk
    /\ images = imgs
    /\ cur_images = EmptyDict
    /\ scale = None
    /\ inp_idx = 1
    /\ task_z = <<>>
    /\ task_images = <<>>
    /\ filtered_images = <<>>
    /\ filter_runs = <<>>
    /\ prep_pc = "for"
    /\ prep_result = NoResult
    /\ earlier = NoResult

InitPrepare ==
    /\ rt_Idle
    /\ seg_Idle
    /\ \E tk \in SegTasks, imgs \in ImageSets : prep_Entry(tk, imgs)

NextPrepare ==
    \/ prep_For
    \/ prep_Filter
    \/ prep_Scale
    \/ prep_Return

SpecPrepare == InitPrepare /\ [][NextPrepare]_vars

(***************************************************************************)
(* Two calls of get_prepared_images on the same images, the second with    *)
(* the task's inputs in another order                                      *)
(***************************************************************************)
DistinctChannels(inputs) ==
    \A i, j \in 1 .. Len(inputs) :
        inputs[i].image_channel = inputs[j].image_channel => i = j

Reorderings(inputs) ==
    {[i \in 1 .. Len(inputs) |-> inputs[f[i]]] :
        f \in {g \in [1 .. Len(inputs) -> 1 .. Len(inputs)] :
                  \A i, j \in 1 .. Len(inputs) : g[i] = g[j] => i = j}}

\* The caller keeps the first result and calls get_prepared_images again with
\* the inputs reordered
prep_CallAgain ==
    /\ prep_pc = "done"
    /\ earlier = NoResult
    /\ earlier' = [kind |-> "call", inputs |-> task.task_input_data,
                    result |-> prep_result]
    /\ \E inputs \in Reorderings(task.task_input_data) :
          task' = [task EXCEPT !.task_input_data = inputs]
    /\ cur_images' = EmptyDict
    /\ scale' = None
    /\ inp_idx' = 1
    /\ task_z' = <<>>
    /\ task_images' = <<>>
    /\ filtered_images' = <<>>
    /\ filter_runs' = <<>>
    /\ prep_pc' = "for"
    /\ prep_result' = NoResult
    /\ UNCHANGED images
    /\ UNCHANGED <<rt_vars, seg_vars>>

InitPermute ==
    /\ rt_Idle
    /\ seg_Idle
    /\ \E tk \in SegTasks, imgs \in ImageSets :
          /\ DistinctChannels(tk.task_input_data)
          /\ prep_Entry(tk, imgs)

NextPermute ==
    \/ prep_For
    \/ prep_Filter
    \/ prep_Scale
    \/ prep_Return
    \/ prep_CallAgain

SpecPermute == InitPermute /\ [][NextPermute]_vars

(***************************************************************************)
(* Claims about read_tile (checked under SpecRead)                         *)
(***************************************************************************)
\* The script holds only successes and I/O failures
ScriptIsIO == \A k \in 1 .. num_tries : script[k] = "ok" \/ IsOSError(script[k])

SomeAttemptSucceeds == \E k \in 1 .. num_tries : script[k] = "ok"

\* C1: for num_tries >= 1 and every script of successes and I/O failures,
\* read_tile returns a tile exactly when one of the first num_tries attempts
\* succeeds and raises IOError exactly when all of them fail; it makes at most
\* num_tries attempts, each attempt k meeting outcome k of the script, and
\* none after the first success.
C1_ReadTileOutcome ==
    /\ Len(attempts) <= num_tries
    /\ \A k \in 1 .. Len(attempts) : attempts[k] = script[k]
    /\ \A k \in 1 .. Len(attempts) - 1 : attempts[k] # "ok"
    /\ (rt_pc = "done" /\ ScriptIsIO) =>
          /\ rt_result.kind \in {"return", "IOError"}
          /\ (rt_result.kind = "return") <=> SomeAttemptSucceeds
          /\ (rt_result.kind = "IOError") <=> ~SomeAttemptSucceeds
          /\ rt_result.kind = "return" =>
                rt_result.value = SqueezeImage(ReadBand(path, window))
          /\ rt_result.kind = "IOError" =>
                /\ rt_result.path = path
                /\ rt_result.window = window
                /\ Len(attempts) = num_tries

\* two I/O failures, then a success on the third and last attempt
C1_Witness ==
    /\ rt_pc = "done"
    /\ ScriptIsIO
    /\ num_tries = 3
    /\ Len(attempts) = 3
    /\ rt_result.kind = "return"

\* Failed attempts that have been through the except clause
HandledFailures == try_number - 1

\* Retries still left after the failure of attempt k
RemainingRetries(k) == num_tries - k

\* Every failure before the last allowed attempt has printed one message with
\* the path and the window, the last failure and the successes none
OneMessagePerEarlyFailure ==
    /\ Len(log) = Min2(HandledFailures, num_tries - 1)
    /\ \A i \in 1 .. Len(log) :
          /\ IsOSError(attempts[i])
          /\ log[i].path = path
          /\ log[i].window = window

\* C8 as stated: the message of failed attempt k gives the number of retries
\* still left after that failure.  (Either number of the message may be it.)
C8_RemainingCount ==
    /\ OneMessagePerEarlyFailure
    /\ \A i \in 1 .. Len(log) :
          \/ log[i].retrying = RemainingRetries(i)
          \/ log[i].num_retries = RemainingRetries(i)

\* C8 amended: each failed attempt k < num_tries prints exactly one message
\* with the path, the window, the number k of the retry that follows and the
\* total number of retries num_tries - 1; the last failed attempt and the
\* successful attempts print nothing.
C8_RetryMessages ==
    /\ OneMessagePerEarlyFailure
    /\ \A i \in 1 .. Len(log) :
          /\ log[i].retrying = i
          /\ log[i].num_retries = num_tries - 1
    /\ rt_pc = "done" =>
          Len(log) = Cardinality({k \in 1 .. Len(attempts) :
                                     IsOSError(attempts[k]) /\ k < num_tries})

\* all four attempts failed: three messages, none for the last failure
C8_Witness ==
    /\ rt_pc = "done"
    /\ num_tries = 4
    /\ rt_result.kind = "IOError"
    /\ Len(log) = 3
    /\ log[3].retrying = 3

\* C9: the file opened for an attempt is closed on every exit path of the
\* attempt: at most one file is open at any point, and none (nor an
\* environment) when an attempt starts, in the except clause, or when
\* read_tile returns or raises, be it after a success, an OSError or another
\* exception.
C9_ResourceReleased ==
    /\ file_open \in {0, 1}
    /\ env_open \in {0, 1}
    /\ file_open = 1 => rt_pc \in {"read", "exit_file"}
    /\ rt_pc \in {"loop", "enter_env", "except", "break", "raise", "done"} =>
          /\ file_open = 0
          /\ env_open = 0

\* an attempt that failed in read with an OSError, then one that failed in
\* read with another exception, which left read_tile
C9_Witness ==
    /\ rt_pc = "done"
    /\ Len(attempts) = 2
    /\ attempts[1] = "read_OSError"
    /\ attempts[2] = "read_WindowError"
    /\ rt_result.kind = "WindowError"

(***************************************************************************)
(* Claims about get_segmentation_images (checked under SpecAssemble)       *)
(***************************************************************************)
DescriptorKeys(infos) == {<<infos[i].channel, infos[i].z_layer>> : i \in 1 .. Len(infos)}

\* The last descriptor of (c, z)
LastFor(infos, c, z) ==
    infos[CHOOSE i \in 1 .. Len(infos) :
             /\ infos[i].channel = c /\ infos[i].z_layer = z
             /\ \A j \in i + 1 .. Len(infos) :
                   ~(infos[j].channel = c /\ infos[j].z_layer = z)]

\* C3: when every read succeeds, the returned ImageSet has exactly the
\* (channel, z_layer) pairs of the descriptors as keys and exactly their
\* channels, in whatever order the descriptors come; each key holds the tile
\* read at window_info from the path of the last descriptor of that key.
C3_KeysMatchDescriptors ==
    (seg_pc = "done" /\ seg_result.kind = "return") =>
        /\ Keys(seg_result.value) = DescriptorKeys(images_info)
        /\ DOMAIN seg_result.value = {k[1] : k \in DescriptorKeys(images_info)}
        /\ \A k \in Keys(seg_result.value) :
              seg_result.value[k[1]][k[2]] =
                 SqueezeImage(ReadBand(LastFor(images_info, k[1], k[2]).full_path,
                                       window_info))

\* three descriptors, the two channels interleaved, the first channel with
\* two z layers
C3_Witness ==
    /\ seg_pc = "done"
    /\ seg_result.kind = "return"
    /\ Len(images_info) = 3
    /\ images_info[1].channel = images_info[3].channel
    /\ images_info[1].channel # images_info[2].channel
    /\ images_info[1].z_layer # images_info[3].z_layer

(***************************************************************************)
(* Claims about get_prepared_images (checked under SpecPrepare, C10 under  *)
(* SpecPermute)                                                            *)
(***************************************************************************)
Inputs == task.task_input_data
InputChannels == {Inputs[i].image_channel : i \in 1 .. Len(Inputs)}

\* (source.height / filtered.height, source.width / filtered.width)
ImageScale(src, filt) ==
    <<TrueDiv(src.shape[1], filt.shape[1]), TrueDiv(src.shape[2], filt.shape[2])>>

\* Input i names a channel of the image set with a z layer of the task
Usable(i) ==
    /\ Inputs[i].image_channel \in DOMAIN images
    /\ DOMAIN images[Inputs[i].image_channel] \cap task.z_layers # {}

\* The scale pairs of the images of input i once filtered
ScalesOfInput(i) ==
    LET ch == Inputs[i].image_channel
        zs == DOMAIN images[ch] \cap task.z_layers
        src == [k \in 1 .. Cardinality(zs) |-> images[ch][Sorted(zs)[k]]]
        out == ApplyFilter(Inputs[i].image_preprocessing, src)
    IN  {ImageScale(src[k], out[k]) : k \in 1 .. Len(src)}

TaskScales == UNION {ScalesOfInput(i) : i \in 1 .. Len(Inputs)}

\* C2: when get_prepared_images returns, the returned scale is
\* (source.height / filtered.height, source.width / filtered.width) of every
\* image of the returned ImageSet, in every z layer of every channel; and when
\* two images of the task (every input of which has images) are filtered to
\* different scale pairs, be it in one channel or in two, it raises the scale
\* mismatch error and returns nothing.
C2_OneScale ==
    /\ (prep_pc = "done" /\ prep_result.kind = "return") =>
          \A k \in Keys(prep_result.images) :
              ImageScale(images[k[1]][k[2]], prep_result.images[k[1]][k[2]])
                 = prep_result.scale
    /\ (prep_pc = "done" /\ (\A i \in 1 .. Len(Inputs) : Usable(i))
          /\ Cardinality(TaskScales) > 1) =>
          prep_result = InvalidScale

\* two channels, one of two z layers, all images halved on both axes
C2_Witness ==
    /\ prep_pc = "done"
    /\ prep_result.kind = "return"
    /\ Cardinality(DOMAIN prep_result.images) = 2
    /\ Cardinality(Keys(prep_result.images)) = 3
    /\ prep_result.scale = <<<<2, 1>>, <<2, 1>>>>

\* get_prepared_images stopped at input inp_idx
StoppedAtInput == prep_pc = "done" /\ inp_idx <= Len(Inputs)

\* C4 as stated: an input whose channel is missing from the image set ends
\* get_prepared_images with the ValueError "no ... input images found for the
\* task".
C4_MissingChannelError ==
    (StoppedAtInput /\ input_info.image_channel \notin DOMAIN images) =>
        /\ prep_result.kind = "ValueError"
        /\ prep_result \in {NoChannelImages(input_info.image_channel, task.task_id),
                            NoInputImages(task.task_id)}

\* C5: once get_prepared_images comes to an input whose channel is in the
\* image set with no z layer of task.z_layers, it raises the error that
\* names the channel and the task id, and the filter has not been called on
\* the channel's images.
C5_EmptyIntersection ==
    (/\ prep_pc \notin {"for", "idle"}
     /\ inp_idx <= Len(Inputs)
     /\ input_info.image_channel \in DOMAIN images
     /\ DOMAIN images[input_info.image_channel] \cap task.z_layers = {}) =>
        /\ prep_pc = "done"
        /\ prep_result = NoChannelImages(input_info.image_channel, task.task_id)
        /\ prep_result.channel = input_info.image_channel
        /\ prep_result.task_id = task.task_id
        /\ \A i \in 1 .. Len(filter_runs) : filter_runs[i] # input_info.image_channel

\* the task wants a z layer, the channel has another one, and an earlier
\* channel of the task went through its filter
C5_Witness ==
    /\ StoppedAtInput
    /\ inp_idx = 2
    /\ Len(filter_runs) = 1
    /\ task.z_layers # {}
    /\ input_info.image_channel \in DOMAIN images
    /\ DOMAIN images[input_info.image_channel] \cap task.z_layers = {}
    /\ prep_result.kind = "ValueError"

\* C6: a task without inputs ends get_prepared_images with the ValueError
\* "no input images found for the task" that names the task id, whatever
\* the image set; nothing is returned.
C6_NoInputs ==
    (prep_pc = "done" /\ Len(Inputs) = 0) =>
        /\ prep_result = NoInputImages(task.task_id)
        /\ prep_result.task_id = task.task_id

\* no inputs, an image set that has images for the z layers of the task
C6_Witness ==
    /\ prep_pc = "done"
    /\ Len(Inputs) = 0
    /\ Cardinality(DOMAIN images) = 2
    /\ task.z_layers = ZLayers
    /\ prep_result.kind = "ValueError"

AllIdentity == \A i \in 1 .. Len(Inputs) : Inputs[i].image_preprocessing = "identity"

\* C7: for a task with at least one input, whose every input has the identity
\* pipeline and a channel with a z layer of the task, get_prepared_images
\* returns scale (1.0, 1.0) and an ImageSet with exactly the channels of the
\* inputs, each with exactly its z layers that are in task.z_layers, each z
\* layer with the image of the input ImageSet.
C7_IdentitySubset ==
    (/\ prep_pc = "done"
     /\ Len(Inputs) >= 1
     /\ AllIdentity
     /\ \A i \in 1 .. Len(Inputs) : Usable(i)) =>
        /\ prep_result.kind = "return"
        /\ prep_result.scale = <<<<1, 1>>, <<1, 1>>>>
        /\ DOMAIN prep_result.images = InputChannels
        /\ \A c \in InputChannels :
              /\ DOMAIN prep_result.images[c] = DOMAIN images[c] \cap task.z_layers
              /\ \A z \in DOMAIN prep_result.images[c] :
                    prep_result.images[c][z] = images[c][z]

\* two identity inputs, a third channel in the image set that the task does
\* not name, and a z layer of a task channel that the task does not want
C7_Witness ==
    /\ prep_pc = "done"
    /\ prep_result.kind = "return"
    /\ AllIdentity
    /\ Cardinality(InputChannels) = 2
    /\ Cardinality(DOMAIN images) = 3
    /\ \E c \in InputChannels : DOMAIN images[c] \ task.z_layers # {}

\* C10: for a task whose inputs name pairwise distinct channels, a second call
\* with the inputs in any other order fails if the first failed, and returns
\* the same ImageSet and the same scale if the first returned.
C10_OrderIndependent ==
    (prep_pc = "done" /\ earlier # NoResult) =>
        /\ (prep_result.kind = "return") <=> (earlier.result.kind = "return")
        /\ prep_result.kind = "return" => prep_result = earlier.result

\* two channels given in one order and then in the other, both calls returned
\* with every image halved
C10_Witness ==
    /\ prep_pc = "done"
    /\ earlier # NoResult
    /\ Len(Inputs) = 2
    /\ earlier.inputs # Inputs
    /\ prep_result.kind = "return"
    /\ earlier.result.kind = "return"
    /\ prep_result.scale = <<<<2, 1>>, <<2, 1>>>>

====
